---- MODULE Spec2Model ----
(***************************************************************************)
(* Model of the Duke3D command-line tools: the MAP dumper mapinfo          *)
(* (src/unnamed/part_001), whose main() decodes, reports and frees one     *)
(* map per argument, and its classifier functions.                         *)
(* Further specifications cover two runs on one file, a two-file batch,    *)
(* sprite_read of the dumper variant (src/unnamed/part_002), map_print     *)
(* alone, the archive tool grp (src/grp.c, src/unnamed/part_000) and the   *)
(* sound-file dumper vocinfo (src/vocinfo.c).                              *)
(*                                                                         *)
(* Files are byte sequences.  A record keeps the fields the report, the    *)
(* classifier and the index relations read; the bytes of every other       *)
(* field are present in the file (and consumed by fread) but not stored.   *)
(***************************************************************************)
EXTENDS Integers, Sequences, FiniteSets, TLC

VARIABLES
  argc,     \* main's argc: 1 + the number of file arguments
  i,        \* main's loop index into argv
  pc,       \* where main is: "start", "read", "print", "free", "next",
            \* "returned", "exited", "crashed"; "call" and "ret" in the
            \* specifications of the classifier functions alone
  input,    \* the file behind argv[i] (NoInput before the first map_read)
  map,      \* main's map_t
  report,   \* what map_print wrote to stdout for argv[i]
  status,   \* the process exit status once it ended, else -1
  ret       \* classifier-only specs: the value the called function returned

vars == <<argc, i, pc, input, map, report, status, ret>>

(***************************************************************************)
(* Bounds of the model.                                                    *)
(***************************************************************************)
MaxFiles == 2          \* file arguments per invocation
MaxRecords == 2        \* sectors + walls + sprites of a generated map file
MaxClassifySprites == 3 \* sprites of a map handed directly to the classifier
MaxClassifySectors == 1 \* sectors of such a map
MaxBatchSprites == 1   \* sprites of a file of a two-file batch
MaxGrpInputs == 2      \* input files of a grp invocation
MaxVocFiles == 3       \* file arguments of a vocinfo invocation
MaxVocBlocks == 2      \* blocks of a VOC file

(***************************************************************************)
(* Program constants.                                                      *)
(***************************************************************************)
error_fopen == 3
EXIT_FAILURE == 1
EXIT_SUCCESS == 0
NUKEBUTTON == 142
APLAYER == 1405
SecretExitPal == 14
LotagUnknown == 32767
LotagFry == 65534
LotagNormal == 65535
VanillaSectors == 1024
VanillaWalls == 8192
VanillaSprites == 4096
U16Max == 65535
grp_name_len == 12
grp_error_fopen == 129
voc_error_fopen == 129

Min(a, b) == IF a < b THEN a ELSE b

(***************************************************************************)
(* Integer encodings: little-endian two's complement, as fread into the    *)
(* struct fields stores them on the little-endian hosts the tools target.  *)
(***************************************************************************)
\* the unsigned 16-bit pattern of a short or unsigned short
ToU16(v) == v % 65536
\* the value of a 16-bit pattern held in a `short`
AsShort(u) == IF u >= 32768 THEN u - 65536 ELSE u
\* the value of a 16-bit pattern held in an `unsigned short`
AsUShort(u) == u

LE16(u) == <<u % 256, u \div 256>>
\* the four bytes of an int (\div rounds down, so this is two's complement)
LE32(v) == <<v % 256, (v \div 256) % 256, (v \div 65536) % 256, (v \div 16777216) % 256>>
FromLE16(b) == b[1] + 256 * b[2]
\* the int four bytes hold
FromLE32(b) ==
  b[1] + 256 * b[2] + 65536 * b[3] + 16777216 * (IF b[4] >= 128 THEN b[4] - 256 ELSE b[4])

Zeros(n) == [k \in 1..n |-> 0]

RECURSIVE Flatten(_)
Flatten(ss) == IF ss = <<>> THEN <<>> ELSE Head(ss) \o Flatten(Tail(ss))

BSeq(S, n) == UNION {[1..k -> S] : k \in 0..n}

(***************************************************************************)
(* The MAP file layout, as the field order of the fread calls fixes it.    *)
(* A description d of a file gives its header fields, the three declared   *)
(* counts and the records that follow each count.                          *)
(***************************************************************************)
EncSector(s) ==
  LE16(ToU16(s.wall_ptr)) \o LE16(ToU16(s.wall_count)) \o Zeros(36)

EncWall(w) ==
  Zeros(8) \o LE16(ToU16(w.wall_next_right)) \o LE16(ToU16(w.wall_next_left))
    \o LE16(ToU16(w.sector_next)) \o Zeros(18)

EncSprite(s) ==
  Zeros(14) \o LE16(ToU16(s.pic)) \o <<0, s.pal>> \o Zeros(6)
    \o LE16(ToU16(s.sector)) \o Zeros(4) \o LE16(ToU16(s.owner)) \o Zeros(6)
    \o LE16(ToU16(s.lotag)) \o LE16(ToU16(s.hitag)) \o LE16(ToU16(s.extra))

Encode(d) ==
  LE32(d.version) \o Zeros(14) \o LE16(ToU16(d.sector_start))
    \o LE16(d.nS) \o Flatten([k \in 1..Len(d.sectors) |-> EncSector(d.sectors[k])])
    \o LE16(d.nW) \o Flatten([k \in 1..Len(d.walls) |-> EncWall(d.walls[k])])
    \o LE16(d.nP) \o Flatten([k \in 1..Len(d.sprites) |-> EncSprite(d.sprites[k])])

\* the bytes of an input file: the encoding of its description cut at len
Bytes(f) == SubSeq(Encode(f.d), 1, f.len)

(***************************************************************************)
(* fread(dst, 1, n, fp) at file position pos: the bytes left in dst (its   *)
(* old bytes where the file has ended) and the position afterwards.        *)
(***************************************************************************)
Fread(bytes, pos, n, old) ==
  [k \in 1..n |-> IF pos + k <= Len(bytes) THEN bytes[pos + k] ELSE old[k]]

Ftell(bytes, pos, n) == Min(pos + n, Len(bytes))

ReadShort(bytes, pos, old) == AsShort(FromLE16(Fread(bytes, pos, 2, LE16(ToU16(old)))))
ReadUShort(bytes, pos, old) == AsUShort(FromLE16(Fread(bytes, pos, 2, LE16(ToU16(old)))))
ReadInt(bytes, pos, old) == FromLE32(Fread(bytes, pos, 4, LE32(old)))
ReadUChar(bytes, pos, old) == Fread(bytes, pos, 1, <<old>>)[1]

(***************************************************************************)
(* Memory malloc returned, before anything is stored in it: every byte is  *)
(* the fill byte g the allocator left there.                               *)
(***************************************************************************)
FillShort(g) == AsShort(257 * g)
FillUShort(g) == AsUShort(257 * g)
FillSector(g) == [wall_ptr |-> FillShort(g), wall_count |-> FillShort(g)]
FillWall(g) == [wall_next_right |-> FillShort(g), wall_next_left |-> FillShort(g),
                sector_next |-> FillShort(g)]
FillSprite(g) == [pic |-> FillShort(g), pal |-> g, sector |-> FillShort(g),
                  owner |-> FillShort(g), lotag |-> FillUShort(g),
                  hitag |-> FillUShort(g), extra |-> FillShort(g)]

(***************************************************************************)
(* sector_read, wall_read, sprite_read: the record left in *dst and the    *)
(* file position afterwards.                                               *)
(***************************************************************************)
sector_read(dst, bytes, pos) ==
  LET p1 == Ftell(bytes, pos, 2)
      p2 == Ftell(bytes, p1, 2)
  IN [rec |-> [wall_ptr |-> ReadShort(bytes, pos, dst.wall_ptr),
               wall_count |-> ReadShort(bytes, p1, dst.wall_count)],
      pos |-> Ftell(bytes, p2, 36)]

wall_read(dst, bytes, pos) ==
  LET p0 == Ftell(bytes, pos, 8)
      p1 == Ftell(bytes, p0, 2)
      p2 == Ftell(bytes, p1, 2)
      p3 == Ftell(bytes, p2, 2)
  IN [rec |-> [wall_next_right |-> ReadShort(bytes, p0, dst.wall_next_right),
               wall_next_left |-> ReadShort(bytes, p1, dst.wall_next_left),
               sector_next |-> ReadShort(bytes, p2, dst.sector_next)],
      pos |-> Ftell(bytes, p3, 18)]

sprite_read(dst, bytes, pos) ==
  LET pPic == Ftell(bytes, pos, 14)
      pShade == Ftell(bytes, pPic, 2)
      pPal == Ftell(bytes, pShade, 1)
      pClip == Ftell(bytes, pPal, 1)
      pSector == Ftell(bytes, pClip, 6)
      pStatus == Ftell(bytes, pSector, 2)
      pOwner == Ftell(bytes, pStatus, 4)
      pVel == Ftell(bytes, pOwner, 2)
      pLotag == Ftell(bytes, pVel, 6)
      pHitag == Ftell(bytes, pLotag, 2)
      pExtra == Ftell(bytes, pHitag, 2)
  IN [rec |-> [pic |-> ReadShort(bytes, pPic, dst.pic),
               pal |-> ReadUChar(bytes, pPal, dst.pal),
               sector |-> ReadShort(bytes, pSector, dst.sector),
               owner |-> ReadShort(bytes, pOwner, dst.owner),
               lotag |-> ReadUShort(bytes, pLotag, dst.lotag),
               hitag |-> ReadUShort(bytes, pHitag, dst.hitag),
               extra |-> ReadShort(bytes, pExtra, dst.extra)],
      pos |-> Ftell(bytes, pExtra, 2)]

(***************************************************************************)
(* An array of map_t: ptr is "NULL", "heap" or "freed"; cap is the number  *)
(* of elements allocated; init holds the leading elements that a *_read    *)
(* call stored into; the other elements hold the fill byte.  fill is also  *)
(* what a load through a null pointer yields on a build where it does not  *)
(* trap.                                                                   *)
(***************************************************************************)
NullArray == [ptr |-> "NULL", cap |-> 0, init |-> <<>>, fill |-> 0]

Malloc(ok, n, init, g) ==
  IF ok
    THEN [ptr |-> "heap", cap |-> n, init |-> init,
          fill |-> IF Len(init) < n THEN g ELSE 0]
    ELSE [ptr |-> "NULL", cap |-> 0, init |-> <<>>,
          fill |-> IF n > 0 THEN g ELSE 0]

\* map_t map = {0}
ZeroMap ==
  [version |-> 0, sector_start |-> 0,
   sector_count |-> 0, sector |-> NullArray,
   wall_count |-> 0, wall |-> NullArray,
   sprite_count |-> 0, sprite |-> NullArray]

(***************************************************************************)
(* The three loops of map_read.  k elements are read; acc holds them.      *)
(* Once the file position is at the end of the file every fread of the     *)
(* remaining iterations stores nothing and leaves the position alone, so   *)
(* the remaining elements keep the fill.                                   *)
(***************************************************************************)
RECURSIVE ReadSectors(_, _, _, _, _, _)
ReadSectors(bytes, pos, k, n, acc, g) ==
  IF k >= n \/ pos >= Len(bytes)
    THEN [init |-> acc, pos |-> pos]
    ELSE LET r == sector_read(FillSector(g), bytes, pos)
         IN ReadSectors(bytes, r.pos, k + 1, n, Append(acc, r.rec), g)

RECURSIVE ReadWalls(_, _, _, _, _, _)
ReadWalls(bytes, pos, k, n, acc, g) ==
  IF k >= n \/ pos >= Len(bytes)
    THEN [init |-> acc, pos |-> pos]
    ELSE LET r == wall_read(FillWall(g), bytes, pos)
         IN ReadWalls(bytes, r.pos, k + 1, n, Append(acc, r.rec), g)

\* The sprite loop when the memory malloc returned is a block a map_free
\* released before: its leading elements still hold the sprites stale of
\* the earlier map, the others the fill.  sprite_read stores over them;
\* the elements the loop does not reach keep what they held.
RECURSIVE ReadSpritesOver(_, _, _, _, _, _, _)
ReadSpritesOver(bytes, pos, k, n, acc, g, stale) ==
  IF k >= n \/ pos >= Len(bytes)
    THEN [init |-> acc \o SubSeq(stale, k + 1, Min(n, Len(stale))), pos |-> pos]
    ELSE LET dst == IF k < Len(stale) THEN stale[k + 1] ELSE FillSprite(g)
             r == sprite_read(dst, bytes, pos)
         IN ReadSpritesOver(bytes, r.pos, k + 1, n, Append(acc, r.rec), g, stale)

\* the sprite loop on memory no earlier map was stored in
ReadSprites(bytes, pos, k, n, acc, g) ==
  ReadSpritesOver(bytes, pos, k, n, acc, g, <<>>)

(***************************************************************************)
(* map_read on an opened file: the map_t it leaves, starting from the      *)
(* zeroed map of main, and the file position at each of its steps.  okS,   *)
(* okW, okP say whether each malloc returned memory; g is the fill byte of *)
(* that memory and stale the sprites an earlier map left in the block of   *)
(* the sprite array (<<>>: none).                                          *)
(***************************************************************************)
map_read_steps(bytes, okS, okW, okP, g, stale) ==
  LET pPlayer == Ftell(bytes, 0, 4)
      pStart == Ftell(bytes, pPlayer, 14)
      pSCount == Ftell(bytes, pStart, 2)
      sector_count == ReadUShort(bytes, pSCount, ZeroMap.sector_count)
      pSectors == Ftell(bytes, pSCount, 2)
      S == IF okS THEN ReadSectors(bytes, pSectors, 0, sector_count, <<>>, g)
                  ELSE [init |-> <<>>, pos |-> pSectors]
      wall_count == ReadUShort(bytes, S.pos, ZeroMap.wall_count)
      pWalls == Ftell(bytes, S.pos, 2)
      W == IF okW THEN ReadWalls(bytes, pWalls, 0, wall_count, <<>>, g)
                  ELSE [init |-> <<>>, pos |-> pWalls]
      sprite_count == ReadUShort(bytes, W.pos, ZeroMap.sprite_count)
      pSprites == Ftell(bytes, W.pos, 2)
      P == IF okP THEN ReadSpritesOver(bytes, pSprites, 0, sprite_count, <<>>, g, stale)
                  ELSE [init |-> <<>>, pos |-> pSprites]
  IN [map |-> [version |-> ReadInt(bytes, 0, ZeroMap.version),
               sector_start |-> ReadShort(bytes, pStart, ZeroMap.sector_start),
               sector_count |-> sector_count,
               sector |-> Malloc(okS, sector_count, S.init, g),
               wall_count |-> wall_count,
               wall |-> Malloc(okW, wall_count, W.init, g),
               sprite_count |-> sprite_count,
               sprite |-> Malloc(okP, sprite_count, P.init, g)],
      at |-> [sector_count |-> pSCount, sector |-> pSectors,
              wall_count |-> S.pos, wall |-> pWalls,
              sprite_count |-> W.pos, sprite |-> pSprites, end |-> P.pos]]

\* map_read when no block of an earlier map is reused
map_read(bytes, okS, okW, okP, g) ==
  map_read_steps(bytes, okS, okW, okP, g, <<>>).map

\* map->sector[k], map->sprite[k] (k counts from 0, as in C)
SectorAt(m, k) ==
  IF k < Len(m.sector.init) THEN m.sector.init[k + 1] ELSE FillSector(m.sector.fill)
SpriteAt(m, k) ==
  IF k < Len(m.sprite.init) THEN m.sprite.init[k + 1] ELSE FillSprite(m.sprite.fill)

(***************************************************************************)
(* The classifier.                                                         *)
(***************************************************************************)
\* is_single_player without the test of pic
SinglePlayerReason_any_pic(s) ==
  IF s.lotag = LotagUnknown THEN "Yes (??)"
  ELSE IF s.lotag = LotagFry THEN "Yes (\"We're gonna fry your ass, Nukem!\")"
  ELSE IF s.lotag = LotagNormal THEN "Yes (Normal nuke button)"
  ELSE IF s.pal = SecretExitPal THEN "Yes (Secret level exit)"
  ELSE ""

\* the body of is_single_player's first loop for one sprite: the string it
\* returns there, "" when it returns nothing
SinglePlayerReason(s) ==
  IF s.pic = NUKEBUTTON
    THEN IF s.lotag = LotagUnknown THEN "Yes (??)"
         ELSE IF s.lotag = LotagFry THEN "Yes (\"We're gonna fry your ass, Nukem!\")"
         ELSE IF s.lotag = LotagNormal THEN "Yes (Normal nuke button)"
         ELSE IF s.pal = SecretExitPal THEN "Yes (Secret level exit)"
         ELSE ""
    ELSE ""

\* The loops over map->sprite[0 .. sprite_count-1].  The elements past
\* init all hold the fill, so a loop does to each of them what it does to
\* the first: they are taken together.
StoredSprites(m) == Min(Len(m.sprite.init), m.sprite_count)
FillSprites(m) == m.sprite_count - StoredSprites(m)

\* the index at which is_single_player's first loop returns, -1 if it ends
\* (LastOf: the loop going on to the last match)
LastOf(S) == CHOOSE k \in S : \A j \in S : k >= j
FirstOf(S) == CHOOSE k \in S : \A j \in S : k <= j
SinglePlayerHit(m) ==
  LET stored == {k \in 0..(StoredSprites(m) - 1) : SinglePlayerReason(SpriteAt(m, k)) # ""}
  IN IF stored # {} THEN FirstOf(stored)
     ELSE IF FillSprites(m) > 0 /\ SinglePlayerReason(FillSprite(m.sprite.fill)) # ""
       THEN StoredSprites(m)
     ELSE -1

is_single_player(m) ==
  IF SinglePlayerHit(m) = -1
    THEN "No"
    ELSE SinglePlayerReason(SpriteAt(m, SinglePlayerHit(m)))

\* the number of sector_print calls (one printf each) is_single_player makes
SectorPrints(m) == IF SinglePlayerHit(m) = -1 THEN m.sector_count ELSE 0

\* is_dukematch's and is_coop's loops: the value of result after them
\* (IsDukematchStart_le: the test written lotag <= 1)
IsDukematchStart_le(s) == s.pic = APLAYER /\ s.lotag <= 1
IsDukematchStart(s) == s.pic = APLAYER /\ s.lotag = 0
IsCoopStart(s) == s.pic = APLAYER /\ s.lotag = 1

DukematchCount(m) ==
  Cardinality({k \in 0..(StoredSprites(m) - 1) : IsDukematchStart(SpriteAt(m, k))})
    + (IF IsDukematchStart(FillSprite(m.sprite.fill)) THEN FillSprites(m) ELSE 0)

CoopCount(m) ==
  Cardinality({k \in 0..(StoredSprites(m) - 1) : IsCoopStart(SpriteAt(m, k))})
    + (IF IsCoopStart(FillSprite(m.sprite.fill)) THEN FillSprites(m) ELSE 0)

\* what is_dukematch / is_coop return and leave in the caller's buffer:
\* the pointer is the buffer (rewritten by snprintf) or the literal "No"
is_dukematch(m, buffer) ==
  IF DukematchCount(m) # 0
    THEN [ptr |-> "buffer", buffer |-> <<"Yes (", DukematchCount(m) + 1, " players)">>]
    ELSE [ptr |-> "No", buffer |-> buffer]

\* is_coop formatting result instead of result + 1
is_coop_no_local_player(m, buffer) ==
  IF CoopCount(m) # 0
    THEN [ptr |-> "buffer", buffer |-> <<"Yes (", CoopCount(m), " players)">>]
    ELSE [ptr |-> "No", buffer |-> buffer]

is_coop(m, buffer) ==
  IF CoopCount(m) # 0
    THEN [ptr |-> "buffer", buffer |-> <<"Yes (", CoopCount(m) + 1, " players)">>]
    ELSE [ptr |-> "No", buffer |-> buffer]

\* the text printf("%s") prints for such a return value
TextOf(r) == IF r.ptr = "buffer" THEN r.buffer ELSE <<"No">>

\* is_vanilla_compatible with < for the sprite limit
is_vanilla_compatible_lt(m) ==
  IF m.sector_count <= VanillaSectors /\ m.wall_count <= VanillaWalls
       /\ m.sprite_count < VanillaSprites
    THEN "Yes"
    ELSE "No"

is_vanilla_compatible(m) ==
  IF m.sector_count <= VanillaSectors /\ m.wall_count <= VanillaWalls
       /\ m.sprite_count <= VanillaSprites
    THEN "Yes"
    ELSE "No"

(***************************************************************************)
(* The array elements the classifier loads: each loop loads the indices    *)
(* 0 .. last, given here as last (-1: none).  A load is outside the array  *)
(* when its index is not below the number of elements the pointer refers   *)
(* to.                                                                     *)
(***************************************************************************)
Allocated(a) == IF a.ptr = "heap" THEN a.cap ELSE 0

SinglePlayerLastSprite(m) ==
  IF SinglePlayerHit(m) = -1 THEN m.sprite_count - 1 ELSE SinglePlayerHit(m)

SinglePlayerLastSector(m) == SectorPrints(m) - 1

CountLastSprite(m) == m.sprite_count - 1

\* is_single_player loads a sprite or a sector outside its array
SinglePlayerFaults(m) ==
  \/ SinglePlayerLastSprite(m) >= Allocated(m.sprite)
  \/ SinglePlayerLastSector(m) >= Allocated(m.sector)

\* is_coop / is_dukematch load a sprite outside the array
CountFaults(m) == CountLastSprite(m) >= Allocated(m.sprite)

(***************************************************************************)
(* map_print: the lines written to stdout, in order.  The sector_print     *)
(* lines is_single_player writes come before the line its result is        *)
(* printed in; they are kept as their number.                              *)
(***************************************************************************)
Line(tag, val) == [tag |-> tag, val |-> val]

\* map_print with both verdicts formatted before either line is written:
\* the Cooperative line then shows the buffer as is_dukematch left it
map_print_verdicts_first(m, path) ==
  LET coop == is_coop(m, <<>>)
      dm == is_dukematch(m, coop.buffer)
  IN <<Line("Filename", <<path>>), Line("MAP version", <<m.version>>)>>
       \o (IF SectorPrints(m) > 0 THEN <<Line("[sector]", <<SectorPrints(m)>>)>> ELSE <<>>)
       \o <<Line("Single Player", <<is_single_player(m)>>),
            Line("Cooperative 2-8 Player", TextOf([ptr |-> coop.ptr, buffer |-> dm.buffer])),
            Line("DukeMatch 2-8 Player", TextOf(dm)),
            Line("Atomic Edition Required", <<>>),
            Line("New Art", <<>>),
            Line("Vanilla DUKE3D.EXE compatible",
                 <<is_vanilla_compatible(m), m.sector_count, m.wall_count, m.sprite_count>>)>>

map_print(m, path) ==
  LET coop == is_coop(m, <<>>)
      dm == is_dukematch(m, coop.buffer)
  IN <<Line("Filename", <<path>>), Line("MAP version", <<m.version>>)>>
       \o (IF SectorPrints(m) > 0 THEN <<Line("[sector]", <<SectorPrints(m)>>)>> ELSE <<>>)
       \o <<Line("Single Player", <<is_single_player(m)>>),
            Line("Cooperative 2-8 Player", TextOf(coop)),
            Line("DukeMatch 2-8 Player", TextOf(dm)),
            Line("Atomic Edition Required", <<>>),
            Line("New Art", <<>>),
            Line("Vanilla DUKE3D.EXE compatible",
                 <<is_vanilla_compatible(m), m.sector_count, m.wall_count, m.sprite_count>>)>>

\* map_free without free(map->sprite)
map_free_keeps_sprite(m) ==
  [m EXCEPT !.wall = IF m.wall.ptr = "heap" THEN [m.wall EXCEPT !.ptr = "freed"] ELSE m.wall,
            !.sector = IF m.sector.ptr = "heap" THEN [m.sector EXCEPT !.ptr = "freed"]
                       ELSE m.sector]

\* map_free
FreeArray(a) == IF a.ptr = "heap" THEN [a EXCEPT !.ptr = "freed"] ELSE a
map_free(m) ==
  [m EXCEPT !.sprite = FreeArray(m.sprite), !.wall = FreeArray(m.wall),
            !.sector = FreeArray(m.sector)]

(***************************************************************************)
(* Input files.                                                            *)
(***************************************************************************)
SectorKinds == {[wall_ptr |-> 0, wall_count |-> 1]}
WallKinds == {[wall_next_right |-> 0, wall_next_left |-> -1, sector_next |-> -1]}
SpriteKinds ==
  {[pic |-> NUKEBUTTON, pal |-> 0, sector |-> 0, owner |-> -1,
    lotag |-> LotagNormal, hitag |-> 0, extra |-> -1],
   [pic |-> APLAYER, pal |-> 0, sector |-> 0, owner |-> -1,
    lotag |-> 1, hitag |-> 0, extra |-> -1],
   [pic |-> APLAYER, pal |-> 0, sector |-> 0, owner |-> -1,
    lotag |-> 0, hitag |-> 0, extra |-> -1]}
FillBytes == {0, 255}

Desc(nS, ss, nW, ws, nP, ps) ==
  [version |-> 7, sector_start |-> 0, nS |-> nS, sectors |-> ss,
   nW |-> nW, walls |-> ws, nP |-> nP, sprites |-> ps]

\* files that hold every record their counts declare
WellFormedDescs ==
  LET triples == {t \in BSeq(SectorKinds, MaxRecords) \X BSeq(WallKinds, MaxRecords)
                          \X BSeq(SpriteKinds, MaxRecords) :
                    Len(t[1]) + Len(t[2]) + Len(t[3]) <= MaxRecords}
  IN {Desc(Len(t[1]), t[1], Len(t[2]), t[2], Len(t[3]), t[3]) : t \in triples}

\* files that declare the largest count and end right after it
HugeCountDescs ==
  {Desc(U16Max, <<>>, 0, <<>>, 0, <<>>), Desc(0, <<>>, U16Max, <<>>, 0, <<>>),
   Desc(0, <<>>, 0, <<>>, U16Max, <<>>)}

FullLen(d) == Len(Encode(d))

NoInput == [exists |-> FALSE, d |-> Desc(0, <<>>, 0, <<>>, 0, <<>>), len |-> -1]
Missing == [exists |-> FALSE, d |-> Desc(0, <<>>, 0, <<>>, 0, <<>>), len |-> 0]

\* The lengths a file of description d is cut at: its full length, and
\* every shorter length whose first missing byte is one map_read would have
\* stored (a cut inside bytes that are only skipped leaves the same map_t as
\* the cut before them, so one of these stands for the others).
Cuts(d) ==
  LET all == Encode(d)
      Differ(n) == \E g \in FillBytes :
                     map_read(SubSeq(all, 1, n), TRUE, TRUE, TRUE, g)
                       # map_read(SubSeq(all, 1, n + 1), TRUE, TRUE, TRUE, g)
  IN {n \in 0..Len(all) : n = Len(all) \/ Differ(n)}

InputFiles ==
  {Missing}
    \cup UNION {{[exists |-> TRUE, d |-> d, len |-> n] : n \in Cuts(d)} :
                  d \in WellFormedDescs}
    \cup {[exists |-> TRUE, d |-> d, len |-> FullLen(d)] : d \in HugeCountDescs}

\* the file holds the header, the three counts and every declared record
WellFormed(f) ==
  /\ f.exists
  /\ f.d.nS = Len(f.d.sectors) /\ f.d.nW = Len(f.d.walls) /\ f.d.nP = Len(f.d.sprites)
  /\ f.len = FullLen(f.d)

(***************************************************************************)
(* main of mapinfo.                                                        *)
(***************************************************************************)
Init ==
  /\ argc \in 1..(MaxFiles + 1)
  /\ i = 1
  /\ pc = "start"
  /\ input = NoInput
  /\ map = ZeroMap
  /\ report = <<>>
  /\ status = -1
  /\ ret = <<>>

\* argc < 2: usage() ends the process
Usage ==
  /\ pc = "start" /\ argc < 2
  /\ pc' = "exited" /\ status' = EXIT_FAILURE
  /\ UNCHANGED <<argc, i, input, map, report, ret>>

EnterLoop ==
  /\ pc = "start" /\ argc >= 2
  /\ pc' = "read"
  /\ UNCHANGED <<argc, i, input, map, report, status, ret>>

\* map_t map = {0}; map_read(&map, argv[i]) with a file safe_fopen can open
MapRead ==
  /\ pc = "read"
  /\ \E f \in InputFiles :
       /\ f.exists
       /\ input' = f
       /\ LET bytes == Bytes(f)
          IN \E okS \in BOOLEAN, okW \in BOOLEAN, okP \in BOOLEAN, g \in FillBytes :
               map' = map_read(bytes, okS, okW, okP, g)
  /\ pc' = "print"
  /\ report' = <<>>
  /\ UNCHANGED <<argc, i, status, ret>>

\* map_read(&map, argv[i]) when fopen fails: safe_fopen calls exit(error_fopen)
MapReadCannotOpen ==
  /\ pc = "read"
  /\ input' = Missing
  /\ map' = ZeroMap
  /\ report' = <<>>
  /\ pc' = "exited" /\ status' = error_fopen
  /\ UNCHANGED <<argc, i, ret>>

\* map_print(&map, argv[i]) when every load of the classifier is inside an array
MapPrint ==
  /\ pc = "print"
  /\ ~SinglePlayerFaults(map) /\ ~CountFaults(map)
  /\ report' = map_print(map, i)
  /\ pc' = "free"
  /\ UNCHANGED <<argc, i, input, map, status, ret>>

\* map_print(&map, argv[i]) when is_single_player loads through a null array
\* pointer: the load traps, after the first two lines were written, or it
\* yields the bytes found there
MapPrintFault ==
  /\ pc = "print"
  /\ SinglePlayerFaults(map) \/ CountFaults(map)
  /\ \/ /\ report' = SubSeq(map_print(map, i), 1, 2)
        /\ pc' = "crashed"
     \/ /\ report' = map_print(map, i)
        /\ pc' = "free"
  /\ UNCHANGED <<argc, i, input, map, status, ret>>

\* map_free(&map)
MapFree ==
  /\ pc = "free"
  /\ map' = map_free(map)
  /\ pc' = "next"
  /\ UNCHANGED <<argc, i, input, report, status, ret>>

\* the end of the loop body: ++i and the loop test; the next iteration
\* starts with a zeroed map_t and nothing read or written for its file;
\* after the last file main returns EXIT_SUCCESS
LoopNext ==
  /\ pc = "next"
  /\ i' = i + 1
  /\ IF i + 1 < argc
       THEN /\ pc' = "read" /\ status' = status
            /\ map' = ZeroMap /\ input' = NoInput /\ report' = <<>>
       ELSE /\ pc' = "returned" /\ status' = EXIT_SUCCESS
            /\ UNCHANGED <<map, input, report>>
  /\ UNCHANGED <<argc, ret>>

Next ==
  \/ Usage
  \/ EnterLoop
  \/ MapRead
  \/ MapReadCannotOpen
  \/ MapPrint
  \/ MapPrintFault
  \/ MapFree
  \/ LoopNext

Spec == Init /\ [][Next]_vars

(***************************************************************************)
(* The classifier functions alone: each is called once on a map_t whose    *)
(* arrays hold what a decode left there.                                   *)
(***************************************************************************)
ClassifySpriteKinds ==
  {[pic |-> NUKEBUTTON, pal |-> p, sector |-> 0, owner |-> -1,
    lotag |-> t, hitag |-> 0, extra |-> -1] :
     p \in {0, SecretExitPal}, t \in {0, LotagUnknown, LotagFry, LotagNormal}}
  \cup
  {[pic |-> APLAYER, pal |-> x[2], sector |-> 0, owner |-> -1,
    lotag |-> x[1], hitag |-> 0, extra |-> -1] :
     x \in {<<0, 0>>, <<1, 0>>, <<LotagNormal, SecretExitPal>>}}

\* a map_t whose sector array holds ss and whose sprite array holds ps
SpriteMap(ss, ps) ==
  [ZeroMap EXCEPT !.sector_count = Len(ss),
                  !.sector = Malloc(TRUE, Len(ss), ss, 0),
                  !.wall = Malloc(TRUE, 0, <<>>, 0),
                  !.sprite_count = Len(ps),
                  !.sprite = Malloc(TRUE, Len(ps), ps, 0)]

\* a map_t with the given counts whose records are all zero bytes
CountMap(nS, nW, nP) ==
  [ZeroMap EXCEPT !.sector_count = nS, !.sector = Malloc(TRUE, nS, <<>>, 0),
                  !.wall_count = nW, !.wall = Malloc(TRUE, nW, <<>>, 0),
                  !.sprite_count = nP, !.sprite = Malloc(TRUE, nP, <<>>, 0)]

ClassifierMaps ==
  {SpriteMap(ss, ps) : ss \in BSeq(SectorKinds, MaxClassifySectors),
                       ps \in BSeq(ClassifySpriteKinds, MaxClassifySprites)}
    \cup {CountMap(nS, nW, nP) :
            nS \in {0, VanillaSectors, VanillaSectors + 1, U16Max},
            nW \in {0, VanillaWalls, VanillaWalls + 1, U16Max},
            nP \in {0, VanillaSprites, VanillaSprites + 1, U16Max}}

InitClassify ==
  /\ map \in ClassifierMaps
  /\ pc = "call"
  /\ argc = 1 /\ i = 1 /\ input = NoInput /\ report = <<>> /\ status = -1
  /\ ret = <<>>

\* const map_t* const map: the callee leaves the map_t alone
CallIsSinglePlayer ==
  /\ pc = "call"
  /\ pc' = "ret"
  /\ ret' = [fn |-> "is_single_player", val |-> <<is_single_player(map)>>,
             prints |-> SectorPrints(map)]
  /\ UNCHANGED <<argc, i, input, map, report, status>>

CallIsCoop ==
  /\ pc = "call"
  /\ pc' = "ret"
  /\ ret' = [fn |-> "is_coop", val |-> TextOf(is_coop(map, <<>>)), prints |-> 0]
  /\ UNCHANGED <<argc, i, input, map, report, status>>

CallIsDukematch ==
  /\ pc = "call"
  /\ pc' = "ret"
  /\ ret' = [fn |-> "is_dukematch", val |-> TextOf(is_dukematch(map, <<>>)), prints |-> 0]
  /\ UNCHANGED <<argc, i, input, map, report, status>>

CallIsVanillaCompatible ==
  /\ pc = "call"
  /\ pc' = "ret"
  /\ ret' = [fn |-> "is_vanilla_compatible", val |-> <<is_vanilla_compatible(map)>>,
             prints |-> 0]
  /\ UNCHANGED <<argc, i, input, map, report, status>>

NextClassify ==
  \/ CallIsSinglePlayer
  \/ CallIsCoop
  \/ CallIsDukematch
  \/ CallIsVanillaCompatible

SpecClassify == InitClassify /\ [][NextClassify]_vars

(***************************************************************************)
(* map_print alone, on the same maps: the report of one file.              *)
(***************************************************************************)
CallMapPrint ==
  /\ pc = "call"
  /\ pc' = "ret"
  /\ report' = map_print(map, i)
  /\ ret' = [fn |-> "map_print", val |-> <<>>, prints |-> SectorPrints(map)]
  /\ UNCHANGED <<argc, i, input, map, status>>

NextReport == CallMapPrint

SpecReport == InitClassify /\ [][NextReport]_vars

(***************************************************************************)
(* Two runs of mapinfo on the same file.  To each run belong its own       *)
(* allocator (whether each malloc returns memory, the bytes found in it)   *)
(* and, where a load through a null pointer happens, whether it traps.     *)
(* The first run is main with one argument; ret keeps its outcome.         *)
(***************************************************************************)
InitTwoRuns ==
  /\ pc = "read"
  /\ argc = 2 /\ i = 1 /\ status = -1
  /\ input = NoInput /\ map = ZeroMap /\ report = <<>>
  /\ ret = <<>>

\* the first run has ended (its loop body is done, or a load trapped):
\* the same command is started again
RunAgain ==
  /\ pc \in {"next", "crashed"} /\ ret = <<>>
  /\ ret' = [report |-> report, end |-> pc, map |-> map]
  /\ pc' = "read2"
  /\ map' = ZeroMap /\ report' = <<>>
  /\ UNCHANGED <<argc, i, input, status>>

\* map_read of the second run, on the same file
MapReadAgain ==
  /\ pc = "read2"
  /\ \E okS \in BOOLEAN, okW \in BOOLEAN, okP \in BOOLEAN, g \in FillBytes :
       map' = map_read(Bytes(input), okS, okW, okP, g)
  /\ pc' = "print"
  /\ UNCHANGED <<argc, i, input, report, status, ret>>

NextTwoRuns ==
  \/ MapRead
  \/ MapPrint
  \/ MapPrintFault
  \/ MapFree
  \/ RunAgain
  \/ MapReadAgain

SpecTwoRuns == InitTwoRuns /\ [][NextTwoRuns]_vars

(***************************************************************************)
(* A batch of two files, mapinfo p f, with the heap: malloc may return     *)
(* for the sprite array the block that map_free released for the file      *)
(* before.  ret.freed holds the sprites that block still contains.         *)
(***************************************************************************)
\* the files of a batch: those whose only records are sprites (the sprite
\* block is the one followed from the first file to the second), and a
\* missing one
BatchFiles ==
  {f \in InputFiles :
     ~f.exists \/ (f.d.nS = 0 /\ f.d.nW = 0 /\ Len(f.d.sprites) <= MaxBatchSprites)}

\* the files given as argv[1]: the complete ones
FirstFiles == {f \in BatchFiles : WellFormed(f)}

InitBatch ==
  /\ pc = "read"
  /\ argc = 3 /\ i = 1 /\ status = -1
  /\ input = NoInput /\ map = ZeroMap /\ report = <<>>
  /\ ret = [freed |-> <<>>]

\* map_t map = {0}; map_read(&map, argv[i]): the memory of the sprite
\* array is fresh, or the block released before
BatchMapRead ==
  /\ pc = "read"
  /\ \E f \in (IF i = 1 THEN FirstFiles ELSE BatchFiles) :
       /\ f.exists
       /\ input' = f
       /\ \E okS \in BOOLEAN, okW \in BOOLEAN, okP \in BOOLEAN, g \in FillBytes,
             reuse \in BOOLEAN :
            map' = map_read_steps(Bytes(f), okS, okW, okP, g,
                                  IF reuse THEN ret.freed ELSE <<>>).map
  /\ pc' = "print"
  /\ report' = <<>>
  /\ UNCHANGED <<argc, i, status, ret>>

\* the end of the loop body, as LoopNext; the block of the sprite array
\* that map_free released stays in the heap with its contents
BatchLoopNext ==
  /\ pc = "next"
  /\ i' = i + 1
  /\ IF i + 1 < argc
       THEN /\ pc' = "read" /\ status' = status
            /\ map' = ZeroMap /\ input' = NoInput /\ report' = <<>>
            /\ ret' = [freed |-> IF map.sprite.ptr = "freed"
                                   THEN map.sprite.init ELSE <<>>]
       ELSE /\ pc' = "returned" /\ status' = EXIT_SUCCESS
            /\ UNCHANGED <<map, input, report, ret>>
  /\ UNCHANGED argc

NextBatch ==
  \/ BatchMapRead
  \/ MapReadCannotOpen
  \/ MapPrint
  \/ MapPrintFault
  \/ MapFree
  \/ BatchLoopNext

SpecBatch == InitBatch /\ [][NextBatch]_vars

(***************************************************************************)
(* sprite_read in the two variants of the decoder.  part_002 declares      *)
(* lotag and hitag of sprite_s as short: the same two bytes are stored,    *)
(* and read back as a signed value.                                        *)
(***************************************************************************)
sprite_read_part_002(dst, bytes, pos) ==
  LET r == sprite_read([dst EXCEPT !.lotag = ToU16(@), !.hitag = ToU16(@)], bytes, pos)
  IN [r EXCEPT !.rec.lotag = AsShort(@), !.rec.hitag = AsShort(@)]

\* the 16-bit patterns stored in the tag fields, and the values of extra
TagValues == {0, 1, 32767, 32768, 65534, 65535}
ExtraValues == {-32768, -1, 0, 1, 32767}

\* complete files of one sprite
TagFiles ==
  {[exists |-> TRUE, len |-> FullLen(d), d |-> d] :
     d \in {Desc(0, <<>>, 0, <<>>, 1,
                 <<[pic |-> NUKEBUTTON, pal |-> 0, sector |-> -1, owner |-> -1,
                    lotag |-> t, hitag |-> h, extra |-> e]>>) :
              t \in TagValues, h \in TagValues, e \in ExtraValues}}

InitSpriteRead ==
  /\ input \in TagFiles
  /\ pc = "sprite"
  /\ argc = 2 /\ i = 1 /\ status = -1
  /\ map = ZeroMap /\ report = <<>> /\ ret = <<>>

\* sprite_read(&map->sprite[0], fp) of part_001, on zeroed memory
SpriteReadPart001 ==
  /\ pc = "sprite"
  /\ ret' = [variant |-> "part_001",
             sprite |-> sprite_read(FillSprite(0), Bytes(input),
                                    map_read_steps(Bytes(input), TRUE, TRUE, TRUE, 0, <<>>).at.sprite).rec]
  /\ pc' = "decoded"
  /\ UNCHANGED <<argc, i, input, map, report, status>>

\* sprite_read(&map->sprite[0], fp) of part_002, on zeroed memory
SpriteReadPart002 ==
  /\ pc = "sprite"
  /\ ret' = [variant |-> "part_002",
             sprite |-> sprite_read_part_002(FillSprite(0), Bytes(input),
                                    map_read_steps(Bytes(input), TRUE, TRUE, TRUE, 0, <<>>).at.sprite).rec]
  /\ pc' = "decoded"
  /\ UNCHANGED <<argc, i, input, map, report, status>>

NextSpriteRead ==
  \/ SpriteReadPart001
  \/ SpriteReadPart002

SpecSpriteRead == InitSpriteRead /\ [][NextSpriteRead]_vars

(***************************************************************************)
(* grp (src/grp.c and its version 1.1, src/unnamed/part_000): main and     *)
(* grp_write.  In this specification input holds argv[1..] and the files   *)
(* on disk by path, ret the variant and the output stream out_fp, i is     *)
(* grp_write's loop index; map is not used.  Paths and contents are        *)
(* sequences of character codes.  What fwrite hands to the stream stays in *)
(* its buffer until fclose or exit writes it to the file (the archives of  *)
(* the model are shorter than a stdio buffer).                             *)
(***************************************************************************)
\* "o", "a" and "B1cdefghijklm" (13 characters)
GrpPaths ==
  {<<111>>, <<97>>, <<66, 49, 99, 100, 101, 102, 103, 104, 105, 106, 107, 108, 109>>}
GrpContents == {<<>>, <<7>>, <<7, 8>>}

\* a path names nothing, a file the process may not read, a directory
\* (fopen for reading returns a stream, fread from it returns 0) or a
\* regular file
NoFile == [exists |-> FALSE, readable |-> FALSE, dir |-> FALSE, bytes |-> <<>>]
GrpFileStates ==
  {NoFile,
   [exists |-> TRUE, readable |-> FALSE, dir |-> FALSE, bytes |-> <<7>>],
   [exists |-> TRUE, readable |-> TRUE, dir |-> TRUE, bytes |-> <<>>]}
    \cup {[exists |-> TRUE, readable |-> TRUE, dir |-> FALSE, bytes |-> c] :
            c \in GrpContents}

\* what fseek(in_fp, 0, SEEK_END) and ftell give, as the int its four low
\* bytes hold: the length of a regular file; for a directory the file
\* system's end offset (its block size, or LONG_MAX whose low bytes are -1)
DirSeekEnds == {4096, -1}
SeekEnd(f) == IF f.dir THEN DirSeekEnds ELSE {Len(f.bytes)}

KenSilverman == <<75, 101, 110, 83, 105, 108, 118, 101, 114, 109, 97, 110>>

\* fopen(path, "r") / fopen(path, "rb") returns a stream
FopenRead(fs, path) == fs[path].exists /\ fs[path].readable

\* fopen(path, "w+") can return a stream: the file is created, or it is one
\* the process may read and write
FopenWriteCan(fs, path) == ~fs[path].exists \/ (fs[path].readable /\ ~fs[path].dir)

\* the file system after fopen(path, "w+") returned a stream
Truncated(fs, path) ==
  [fs EXCEPT ![path] = [exists |-> TRUE, readable |-> TRUE, dir |-> FALSE, bytes |-> <<>>]]

\* abort_if_exists that never finds the file
abort_if_exists_never(fs, path) == FALSE

\* abort_if_exists / the first fopen of grp_write: TRUE when it exits
abort_if_exists(fs, path) == FopenRead(fs, path)

\* strncpy(name.s, in[i], 12) into a zeroed str12, then name_upper
name_upper(s) ==
  [k \in 1..grp_name_len |-> IF s[k] >= 97 /\ s[k] <= 122 THEN s[k] - 32 ELSE s[k]]
Name12(path) ==
  name_upper([k \in 1..grp_name_len |-> IF k <= Len(path) THEN path[k] ELSE 0])

\* fwrite(..., out_fp); a null out_fp (grp.c does not test fopen's result)
\* that did not trap takes nothing
StreamWrite(r, bytes) ==
  IF r.out_fp = "open" THEN [r EXCEPT !.buf = @ \o bytes] ELSE r

\* the stream's buffer reaches the file: at fclose(out_fp) and at exit
Flush(fs, path, r) ==
  IF r.out_fp = "open" THEN [fs EXCEPT ![path].bytes = @ \o r.buf] ELSE fs

GrpOut == input.argv[1]
GrpIn(k) == input.argv[k + 2]
GrpN == argc - 2

InitGrp ==
  /\ argc \in 1..(MaxGrpInputs + 2)
  /\ \E av \in [1..(argc - 1) -> GrpPaths], fs \in [GrpPaths -> GrpFileStates] :
       input = [argv |-> av, fs |-> fs, start |-> fs]
  /\ ret \in {[variant |-> v, out_fp |-> "NULL", buf |-> <<>>] : v \in {"grp.c", "part_000"}}
  /\ pc = "main" /\ i = 0 /\ status = -1 /\ report = <<>> /\ map = ZeroMap

\* main: argc < 3, usage() exits
GrpUsage ==
  /\ pc = "main" /\ argc < 3
  /\ pc' = "exited" /\ status' = EXIT_FAILURE
  /\ UNCHANGED <<argc, i, input, map, report, ret>>

\* main calls grp_write
GrpWriteCall ==
  /\ pc = "main" /\ argc >= 3
  /\ pc' = "check"
  /\ report' = <<"Checking">>
  /\ UNCHANGED <<argc, i, input, map, status, ret>>

\* the existence check
AbortIfExists ==
  /\ pc = "check"
  /\ IF abort_if_exists(input.fs, GrpOut)
       THEN /\ pc' = "exited" /\ status' = EXIT_FAILURE
            /\ report' = Append(report, "ERROR: already exists")
       ELSE /\ pc' = "create"
            /\ report' = Append(report, "Creating")
            /\ UNCHANGED status
  /\ UNCHANGED <<argc, i, input, map, ret>>

\* out_fp = fopen(out, "w+"): when it returns NULL, part_000's safe_fopen
\* exits; grp.c hands the null stream to fwrite, which traps or takes
\* nothing
OutCreate ==
  /\ pc = "create"
  /\ \/ /\ FopenWriteCan(input.fs, GrpOut)
        /\ input' = [input EXCEPT !.fs = Truncated(input.fs, GrpOut)]
        /\ ret' = [ret EXCEPT !.out_fp = "open"]
        /\ pc' = "header"
        /\ UNCHANGED status
     \/ /\ ret.variant = "part_000"
        /\ pc' = "exited" /\ status' = grp_error_fopen
        /\ UNCHANGED <<input, ret>>
     \/ /\ ret.variant = "grp.c"
        /\ pc' \in {"crashed", "header"}
        /\ UNCHANGED <<input, ret, status>>
  /\ UNCHANGED <<argc, i, map, report>>

\* the signature and the four low bytes of n
WriteHeader ==
  /\ pc = "header"
  /\ ret' = StreamWrite(ret, KenSilverman \o LE32(GrpN))
  /\ pc' = "list" /\ i' = 0
  /\ UNCHANGED <<argc, input, map, report, status>>

\* an input that cannot be opened: grp.c closes out_fp and exits, part_000
\* exits from safe_fopen; either way what the stream holds reaches the file
InputCannotOpen ==
  /\ pc \in {"list", "copy"}
  /\ ~FopenRead(input.fs, GrpIn(i))
  /\ input' = [input EXCEPT !.fs = Flush(input.fs, GrpOut, ret)]
  /\ ret' = [ret EXCEPT !.buf = <<>>,
                        !.out_fp = IF @ = "open" THEN "closed" ELSE @]
  /\ pc' = "exited"
  /\ status' = IF ret.variant = "part_000" THEN grp_error_fopen ELSE EXIT_FAILURE
  /\ UNCHANGED <<argc, i, map, report>>

\* one turn of the first loop: the directory entry of in[i]
ListEntry ==
  /\ pc = "list"
  /\ FopenRead(input.fs, GrpIn(i))
  /\ \E in_size \in SeekEnd(input.fs[GrpIn(i)]) :
       ret' = StreamWrite(ret, Name12(GrpIn(i)) \o LE32(in_size))
  /\ IF i + 1 < GrpN THEN i' = i + 1 /\ pc' = "list" ELSE i' = 0 /\ pc' = "copy"
  /\ UNCHANGED <<argc, input, map, report, status>>

\* one turn of the second loop: the contents of in[i]
CopyFile ==
  /\ pc = "copy"
  /\ FopenRead(input.fs, GrpIn(i))
  /\ ret' = StreamWrite(ret, input.fs[GrpIn(i)].bytes)
  /\ IF i + 1 < GrpN THEN i' = i + 1 /\ pc' = "copy" ELSE i' = i + 1 /\ pc' = "close"
  /\ UNCHANGED <<argc, input, map, report, status>>

\* fclose(out_fp) and main's return; fclose of grp.c's null stream traps
OutClose ==
  /\ pc = "close"
  /\ IF ret.out_fp = "open"
       THEN /\ input' = [input EXCEPT !.fs = Flush(input.fs, GrpOut, ret)]
            /\ ret' = [ret EXCEPT !.buf = <<>>, !.out_fp = "closed"]
            /\ pc' = "returned" /\ status' = EXIT_SUCCESS
       ELSE /\ pc' = "crashed"
            /\ UNCHANGED <<input, ret, status>>
  /\ UNCHANGED <<argc, i, map, report>>

NextGrp ==
  \/ GrpUsage
  \/ GrpWriteCall
  \/ AbortIfExists
  \/ OutCreate
  \/ WriteHeader
  \/ InputCannotOpen
  \/ ListEntry
  \/ CopyFile
  \/ OutClose

SpecGrp == InitGrp /\ [][NextGrp]_vars

(***************************************************************************)
(* vocinfo (src/vocinfo.c): main and voc_info.  In this specification      *)
(* input holds the file behind each argv[1..], ret the set of arguments    *)
(* whose stream fp is open, report the lines written for argv[i], map the  *)
(* number of blocks blocks_count has walked; i is main's loop index.  A    *)
(* file is given by what voc_info tests of it: whether its first 20 bytes  *)
(* are the signature, and the number of block headers after the 26-byte    *)
(* header.                                                                 *)
(***************************************************************************)
VocFiles ==
  {[exists |-> FALSE, signature |-> FALSE, blocks |-> 0]}
    \cup {[exists |-> TRUE, signature |-> FALSE, blocks |-> 0]}
    \cup {[exists |-> TRUE, signature |-> TRUE, blocks |-> n] : n \in 0..MaxVocBlocks}

InitVoc ==
  /\ argc \in 1..(MaxVocFiles + 1)
  /\ input \in [1..(argc - 1) -> VocFiles]
  /\ ret = [open |-> {}]
  /\ pc = "main" /\ i = 1 /\ status = -1 /\ report = <<>> /\ map = 0

\* main: argc < 2, usage() exits
VocUsage ==
  /\ pc = "main" /\ argc < 2
  /\ pc' = "exited" /\ status' = EXIT_FAILURE
  /\ UNCHANGED <<argc, i, input, map, report, ret>>

\* main enters its loop
VocEnterLoop ==
  /\ pc = "main" /\ argc >= 2
  /\ pc' = "info"
  /\ UNCHANGED <<argc, i, input, map, report, status, ret>>

\* voc_info(argv[i]): fp = safe_fopen(path, "rb")
VocOpen ==
  /\ pc = "info"
  /\ IF input[i].exists
       THEN /\ ret' = [ret EXCEPT !.open = @ \cup {i}]
            /\ pc' = "signature"
            /\ UNCHANGED status
       ELSE /\ pc' = "exited" /\ status' = voc_error_fopen
            /\ UNCHANGED ret
  /\ report' = <<>> /\ map' = 0
  /\ UNCHANGED <<argc, i, input>>

\* the 20 bytes are not the signature: voc_info returns
VocNotAVoc ==
  /\ pc = "signature" /\ ~input[i].signature
  /\ report' = <<"isn't a Creative Voice FIle!">>
  /\ pc' = "next"
  /\ UNCHANGED <<argc, i, input, map, status, ret>>

\* the signature matches: the header line
VocHeader ==
  /\ pc = "signature" /\ input[i].signature
  /\ report' = <<"===">>
  /\ pc' = "blocks"
  /\ UNCHANGED <<argc, i, input, map, status, ret>>

\* one turn of blocks_count's loop
VocBlock ==
  /\ pc = "blocks" /\ map < input[i].blocks
  /\ map' = map + 1
  /\ report' = Append(report, "block")
  /\ UNCHANGED <<argc, i, pc, input, status, ret>>

\* blocks_count returns; the count line; safe_fclose(fp)
VocClose ==
  /\ pc = "blocks" /\ map = input[i].blocks
  /\ report' = Append(report, "blocks found!")
  /\ ret' = [ret EXCEPT !.open = @ \ {i}]
  /\ pc' = "next"
  /\ UNCHANGED <<argc, i, input, map, status>>

\* ++i and the loop test; return EXIT_SUCCESS after the last argument
VocLoopNext ==
  /\ pc = "next"
  /\ i' = i + 1
  /\ IF i + 1 < argc
       THEN pc' = "info" /\ UNCHANGED status
       ELSE pc' = "returned" /\ status' = EXIT_SUCCESS
  /\ UNCHANGED <<argc, input, map, report, ret>>

NextVoc ==
  \/ VocUsage
  \/ VocEnterLoop
  \/ VocOpen
  \/ VocNotAVoc
  \/ VocHeader
  \/ VocBlock
  \/ VocClose
  \/ VocLoopNext

SpecVoc == InitVoc /\ [][NextVoc]_vars

(***************************************************************************)
(* Properties.                                                             *)
(***************************************************************************)
Ended == pc \in {"returned", "exited", "crashed"}

\* the elements a decode stored in an array it allocated
Decoded(a) == IF a.ptr = "heap" THEN a.init ELSE <<>>

\* C1: for every well-formed input, after map_read the map holds exactly
\* the declared number of decoded sectors, walls and sprites (the records of
\* the stream), the three counts are the values stored in the stream, and
\* the report prints these counts.
C1_CountsAsDeclared ==
  (pc \in {"print", "free"} /\ WellFormed(input)) =>
    /\ map.sector_count = input.d.nS
    /\ map.wall_count = input.d.nW
    /\ map.sprite_count = input.d.nP
    /\ Decoded(map.sector) = input.d.sectors
    /\ Decoded(map.wall) = input.d.walls
    /\ Decoded(map.sprite) = input.d.sprites
    /\ pc = "free" =>
         report[Len(report)].val = <<is_vanilla_compatible(map),
                                     input.d.nS, input.d.nW, input.d.nP>>

\* What map_read does get right: a well-formed input is decoded exactly
\* when every array with elements was allocated.
MapReadDecodesWhenAllocated ==
  (/\ pc \in {"print", "free"} /\ WellFormed(input)
   /\ \A a \in {map.sector, map.wall, map.sprite} : a.ptr = "heap") =>
    /\ <<map.sector_count, map.wall_count, map.sprite_count>>
         = <<input.d.nS, input.d.nW, input.d.nP>>
    /\ map.version = input.d.version /\ map.sector_start = input.d.sector_start
    /\ Decoded(map.sector) = input.d.sectors
    /\ Decoded(map.wall) = input.d.walls
    /\ Decoded(map.sprite) = input.d.sprites

\* the end of the last record a well-formed file declares (0: it declares none)
LastElementEnd(d) ==
  IF d.nP > 0 THEN FullLen(d)
  ELSE IF d.nW > 0 THEN FullLen(d) - 2
  ELSE IF d.nS > 0 THEN FullLen(d) - 4
  ELSE 0

TruncatedBeforeLastElement(f) ==
  /\ f.exists
  /\ f.d.nS = Len(f.d.sectors) /\ f.d.nW = Len(f.d.walls) /\ f.d.nP = Len(f.d.sprites)
  /\ f.len < LastElementEnd(f.d)

\* C2: decoding a well-formed file truncated before the end of its last
\* declared array element ends in TruncatedInput: no map of it is handed to
\* the classifier or the report.
C2_TruncatedInputRejected ==
  TruncatedBeforeLastElement(input) => pc \notin {"print", "free", "next"}

\* C3: a declared count that implies an array beyond a reasonable level
\* file makes the decoder fail before allocating; it does not allocate for
\* whatever 16-bit count the stream holds (here: the largest one, declared
\* by a file that ends right after the count).
C3_AllocationTooLargeRejected ==
  /\ Allocated(map.sector) < U16Max
  /\ Allocated(map.wall) < U16Max
  /\ Allocated(map.sprite) < U16Max

\* C4: a failure on one file is reported for that file only and every later
\* file is still decoded and reported; no file-level error ends the
\* process: with files given, the process ends by returning from main after
\* the last file.
C4_BatchContinues ==
  (Ended /\ argc >= 2) => (pc = "returned" /\ i = argc)

\* C5: the engine-compatibility verdict is "Yes" iff sector_count <= 1024,
\* wall_count <= 8192 and sprite_count <= 4096, for every combination of
\* counts, the boundary values and their successors among them.
C5_VanillaVerdict ==
  (pc = "ret" /\ ret.fn = "is_vanilla_compatible") =>
    ret.val = IF map.sector_count <= 1024 /\ map.wall_count <= 8192
                   /\ map.sprite_count <= 4096
                THEN <<"Yes">> ELSE <<"No">>

C5_Witness ==
  /\ pc = "ret" /\ ret.fn = "is_vanilla_compatible"
  /\ map.sector_count = 1024 /\ map.wall_count = 8192 /\ map.sprite_count = 4097
  /\ ret.val = <<"No">>

\* the number of sprites of the map with the given pic and lotag
SpritesWith(m, pic, lotag) ==
  Cardinality({k \in 0..(m.sprite_count - 1) :
                 SpriteAt(m, k).pic = pic /\ SpriteAt(m, k).lotag = lotag})

\* C6: the cooperative verdict is "Yes (c+1 players)" iff the number c of
\* sprites with pic 1405 and lotag 1 is positive, and "No" when c = 0.
C6_CoopVerdict ==
  (pc = "ret" /\ ret.fn = "is_coop") =>
    LET c == SpritesWith(map, 1405, 1)
    IN ret.val = IF c > 0 THEN <<"Yes (", c + 1, " players)">> ELSE <<"No">>

C6_Witness ==
  /\ pc = "ret" /\ ret.fn = "is_coop"
  /\ SpritesWith(map, 1405, 1) = 2 /\ SpritesWith(map, 1405, 0) = 1
  /\ ret.val = <<"Yes (", 3, " players)">>

\* C7: the deathmatch verdict is "Yes (d+1 players)" iff the number d of
\* sprites with pic 1405 and lotag 0 is positive, whatever the number of
\* cooperative starts; no sprite is counted for both.
C7_DukematchVerdict ==
  /\ (pc = "ret" /\ ret.fn = "is_dukematch") =>
       LET d == SpritesWith(map, 1405, 0)
       IN ret.val = IF d > 0 THEN <<"Yes (", d + 1, " players)">> ELSE <<"No">>
  /\ \A k \in 0..(StoredSprites(map) - 1) :
       ~(IsDukematchStart(SpriteAt(map, k)) /\ IsCoopStart(SpriteAt(map, k)))

C7_Witness ==
  /\ pc = "ret" /\ ret.fn = "is_dukematch"
  /\ SpritesWith(map, 1405, 1) = 2 /\ SpritesWith(map, 1405, 0) = 1
  /\ ret.val = <<"Yes (", 2, " players)">>

\* the four conditions of single-player detection and their reasons
SinglePlayerCases ==
  {<<32767, "lotag", "Yes (??)">>,
   <<65534, "lotag", "Yes (\"We're gonna fry your ass, Nukem!\")">>,
   <<65535, "lotag", "Yes (Normal nuke button)">>,
   <<14, "pal", "Yes (Secret level exit)">>}

Satisfies(s, c) ==
  s.pic = 142 /\ (IF c[2] = "lotag" THEN s.lotag = c[1] ELSE s.pal = c[1])

\* C8: single-player presence is reported iff some sprite has pic 142 and
\* lotag 32767, 65534 or 65535, or pal 14; the four cases have four
\* distinct reasons, the reason reported is that of a case some sprite
\* satisfies, and otherwise the result is "No".
C8_SinglePlayerVerdict ==
  (pc = "ret" /\ ret.fn = "is_single_player") =>
    LET sprites == {SpriteAt(map, k) : k \in 0..(map.sprite_count - 1)}
        met == {c \in SinglePlayerCases : \E s \in sprites : Satisfies(s, c)}
    IN /\ Cardinality({c[3] : c \in SinglePlayerCases}) = 4
       /\ met = {} => ret.val = <<"No">>
       /\ met # {} => \E c \in met : ret.val = <<c[3]>>

C8_Witness ==
  /\ pc = "ret" /\ ret.fn = "is_single_player"
  /\ \E k \in 0..(map.sprite_count - 1) :
       SpriteAt(map, k).pic = 142 /\ SpriteAt(map, k).lotag = 0 /\ SpriteAt(map, k).pal = 0
  /\ \E k \in 0..(map.sprite_count - 1) :
       SpriteAt(map, k).pic # 142 /\ SpriteAt(map, k).lotag = 65535 /\ SpriteAt(map, k).pal = 14
  /\ ret.val = <<"No">>

\* C9: the four derivations perform no I/O and leave the map unchanged, on
\* every path, the one where no single-player match is found included.
C9_DerivationsPure ==
  [][pc' = "ret" => (ret'.prints = 0 /\ map' = map)]_vars

\* C10: every array access of the classifier uses an index below the
\* length of the array actually allocated, also for a map produced after a
\* failed allocation.
C10_ClassifierLoadsInBounds ==
  pc = "print" => (~SinglePlayerFaults(map) /\ ~CountFaults(map))

\* one run of main with the single argument f: the map_t after map_read
\* and map_free, what was written to stdout and how the process ended
RunOnce(f, okS, okW, okP, g, trap) ==
  IF ~f.exists
    THEN [map |-> ZeroMap, report |-> <<>>, end |-> "exited"]
    ELSE LET m == map_read(Bytes(f), okS, okW, okP, g)
         IN IF (SinglePlayerFaults(m) \/ CountFaults(m)) /\ trap
              THEN [map |-> m, report |-> SubSeq(map_print(m, 1), 1, 2), end |-> "crashed"]
              ELSE [map |-> map_free(m), report |-> map_print(m, 1), end |-> "returned"]

\* RunOnce is main with one argument: what main leaves for its first file
\* is an outcome of RunOnce.
RunOnceIsMain ==
  (i = 1 /\ pc \in {"next", "crashed"}) =>
    \E okS \in BOOLEAN, okW \in BOOLEAN, okP \in BOOLEAN, g \in FillBytes,
       trap \in BOOLEAN :
      LET o == RunOnce(input, okS, okW, okP, g, trap)
      IN o.map = map /\ o.report = report
         /\ o.end = (IF pc = "next" THEN "returned" ELSE pc)

\* every malloc of the run that left m returned memory
AllAllocated(m) == \A a \in {m.sector, m.wall, m.sprite} : a.ptr # "NULL"

\* C11: two independent runs over the same input bytes, truncated inputs
\* included, produce identical derived facts: the same report (version,
\* single-player verdict and reason, cooperative and deathmatch verdicts
\* and capacities, compatibility verdict, the three counts) and the same
\* way of ending.  Stated for the runs in which every malloc returned
\* memory, so that no difference comes from a failed allocation.
C11_RunsAgree ==
  (pc \in {"next", "crashed"} /\ ret # <<>>
     /\ AllAllocated(map) /\ AllAllocated(ret.map)) =>
    (report = ret.report /\ pc = ret.end)

\* the lines of a report but the first, which names the file
Facts(r) == Tail(r)

\* C12: the facts reported for a file depend only on that file's bytes:
\* what a file shows as the second file of a batch, after any predecessor,
\* is what a run on that file alone can show (nothing an earlier file left
\* in the heap reaches the later file's map or verdicts).
C12_ReportOfFileAlone ==
  (i = 2 /\ pc \in {"next", "crashed"}) =>
    \E okS \in BOOLEAN, okW \in BOOLEAN, okP \in BOOLEAN, g \in FillBytes,
       trap \in BOOLEAN :
      LET o == RunOnce(input, okS, okW, okP, g, trap)
      IN /\ o.end = (IF pc = "next" THEN "returned" ELSE pc)
         /\ Facts(o.report) = Facts(report)

\* map->wall[k]
WallAt(m, k) ==
  IF k < Len(m.wall.init) THEN m.wall.init[k + 1] ELSE FillWall(m.wall.fill)

\* the structural violations a report names: the values of its lines
\* tagged "Violation" (map_print writes no such line)
ReportedViolations(r) == {r[j].val : j \in {n \in 1..Len(r) : r[n].tag = "Violation"}}

\* a sector whose wall range leaves the wall array
SectorViolates(m, k) ==
  LET s == SectorAt(m, k)
  IN s.wall_ptr < 0 \/ s.wall_ptr + s.wall_count > m.wall_count

\* C13: for every sector of a decoded map a violation is reported iff
\* wall_start < 0 or wall_start + wall_count > the number of walls; a
\* violating sector is reported, not silently accepted.
C13_SectorViolationsReported ==
  (pc = "free" /\ WellFormed(input) /\ AllAllocated(map)) =>
    \A k \in 0..(map.sector_count - 1) :
      SectorViolates(map, k) <=> <<"sector", k>> \in ReportedViolations(report)

\* an index field: the sentinel -1, or an index into an array of count elements
IndexOk(v, count) == v = -1 \/ (v >= 0 /\ v < count)

WallViolates(m, k) ==
  LET w == WallAt(m, k)
  IN \/ ~IndexOk(w.wall_next_right, m.wall_count)
     \/ ~IndexOk(w.wall_next_left, m.wall_count)
     \/ ~IndexOk(w.sector_next, m.sector_count)

SpriteViolates(m, k) ==
  LET p == SpriteAt(m, k)
  IN ~IndexOk(p.sector, m.sector_count) \/ ~IndexOk(p.owner, m.sprite_count)

\* C14: for every wall and sprite of a decoded map a violation is reported
\* iff one of its index fields is neither -1 nor an index of the target
\* array; all violations are collected, none is left out after the first.
C14_IndexViolationsReported ==
  (pc = "free" /\ WellFormed(input) /\ AllAllocated(map)) =>
    /\ \A k \in 0..(map.wall_count - 1) :
         WallViolates(map, k) <=> <<"wall", k>> \in ReportedViolations(report)
    /\ \A k \in 0..(map.sprite_count - 1) :
         SpriteViolates(map, k) <=> <<"sprite", k>> \in ReportedViolations(report)

\* C15: sprite lotag and hitag are decoded as unsigned 16-bit values (the
\* stored bytes FF FF give 65535, FE FF give 65534, never a negative
\* number) in every variant of the decoder; extra stays signed 16-bit.
C15_TagsUnsigned ==
  pc = "decoded" =>
    LET stored == input.d.sprites[1]
    IN /\ ret.sprite.lotag = stored.lotag /\ ret.sprite.lotag \in 0..65535
       /\ ret.sprite.hitag = stored.hitag /\ ret.sprite.hitag \in 0..65535
       /\ ret.sprite.extra = stored.extra /\ ret.sprite.extra \in -32768..32767

\* the three arrays of a map_t
Arrays(m) == {m.sector, m.wall, m.sprite}

Qualifies(s) == \E c \in SinglePlayerCases : Satisfies(s, c)

\* the reason of one qualifying sprite: the first condition it meets, in
\* the order lotag 32767, lotag 65534, lotag 65535, pal 14
ReasonInOrder(s) ==
  IF s.lotag = 32767 THEN "Yes (??)"
  ELSE IF s.lotag = 65534 THEN "Yes (\"We're gonna fry your ass, Nukem!\")"
  ELSE IF s.lotag = 65535 THEN "Yes (Normal nuke button)"
  ELSE "Yes (Secret level exit)"

\* C17: when several sprites, or several conditions of one sprite, qualify,
\* the reason reported is that of the lowest-index qualifying sprite, and
\* within it that of the first condition met in the order lotag 32767,
\* lotag 65534, lotag 65535, pal 14; later sprites never override it.
C17_FirstMatchWins ==
  (pc = "ret" /\ ret.fn = "is_single_player") =>
    LET q == {k \in 0..(map.sprite_count - 1) : Qualifies(SpriteAt(map, k))}
    IN q # {} =>
         \E k \in q : /\ \A j \in q : k <= j
                      /\ ret.val = <<ReasonInOrder(SpriteAt(map, k))>>

C17_Witness ==
  /\ pc = "ret" /\ ret.fn = "is_single_player"
  /\ map.sprite_count >= 2
  /\ SpriteAt(map, 0).pic = 142 /\ SpriteAt(map, 0).lotag = 65535
  /\ SpriteAt(map, 0).pal = 14
  /\ SpriteAt(map, 1).pic = 142 /\ SpriteAt(map, 1).lotag = 32767
  /\ ret.val = <<"Yes (Normal nuke button)">>

\* the file positions of map_read's steps in the run that left the state's
\* map: the allocations that succeeded are those whose array is not NULL
StepsOf(g) ==
  map_read_steps(Bytes(input), map.sector.ptr = "heap", map.wall.ptr = "heap",
                 map.sprite.ptr = "heap", g, <<>>)

\* the offsets of the dense layout for S sectors, W walls, P sprites
DenseOffsets(S, W, P) ==
  [sector_count |-> 20, sector |-> 22,
   wall_count |-> 22 + 40 * S, wall |-> 24 + 40 * S,
   sprite_count |-> 24 + 40 * S + 32 * W, sprite |-> 26 + 40 * S + 32 * W,
   end |-> 26 + 40 * S + 32 * W + 44 * P]

\* every record of an allocated array is read at its dense offset and
\* takes 40, 32 or 44 bytes
RecordsDense(S, W, P) ==
  LET bytes == Bytes(input)
      at == DenseOffsets(S, W, P)
  IN /\ map.sector.ptr = "heap" =>
          \A k \in 0..(S - 1) :
            LET r == sector_read(FillSector(0), bytes, at.sector + 40 * k)
            IN r.rec = SectorAt(map, k) /\ r.pos = at.sector + 40 * (k + 1)
     /\ map.wall.ptr = "heap" =>
          \A k \in 0..(W - 1) :
            LET r == wall_read(FillWall(0), bytes, at.wall + 32 * k)
            IN r.rec = WallAt(map, k) /\ r.pos = at.wall + 32 * (k + 1)
     /\ map.sprite.ptr = "heap" =>
          \A k \in 0..(P - 1) :
            LET r == sprite_read(FillSprite(0), bytes, at.sprite + 44 * k)
            IN r.rec = SpriteAt(map, k) /\ r.pos = at.sprite + 44 * (k + 1)

\* the dense layout is what map_read follows when every malloc returns
\* memory
DenseWhenAllocated ==
  (pc = "print" /\ WellFormed(input) /\ AllAllocated(map)) =>
    LET d == input.d
    IN /\ \E g \in FillBytes :
            StepsOf(g).map = map /\ StepsOf(g).at = DenseOffsets(d.nS, d.nW, d.nP)
       /\ RecordsDense(d.nS, d.nW, d.nP)

\* C18: decoding is sequential over densely packed records: for a
\* well-formed input with S sectors, W walls and P sprites, sector_count is
\* read at offset 20, sector k at 22 + 40k, wall_count at 22 + 40S, wall k
\* at 24 + 40S + 32k, sprite_count at 24 + 40S + 32W, sprite k at
\* 26 + 40S + 32W + 44k; when an array is not decoded (its allocation
\* failed) the count after it is read at that same offset; when the sprite
\* array is decoded, decoding ends at 26 + 40S + 32W + 44P.
C18_DenseSequentialOffsets ==
  (pc = "print" /\ WellFormed(input)) =>
    LET d == input.d
        dense == DenseOffsets(d.nS, d.nW, d.nP)
    IN /\ \E g \in FillBytes :
            /\ StepsOf(g).map = map
            /\ \A step \in {"sector_count", "sector", "wall_count", "wall",
                            "sprite_count", "sprite"} :
                 StepsOf(g).at[step] = dense[step]
            /\ map.sprite.ptr = "heap" => StepsOf(g).at.end = dense.end
       /\ RecordsDense(d.nS, d.nW, d.nP)

\* the value of the report's line with the given tag
LineOf(r, tag) == r[CHOOSE k \in 1..Len(r) : r[k].tag = tag].val

\* the capacity text for a count of player starts
Capacity(n) == IF n > 0 THEN <<"Yes (", n + 1, " players)">> ELSE <<"No">>

\* C19: in the report of one file the cooperative line shows the capacity
\* derived from the cooperative count and the deathmatch line the capacity
\* derived from the deathmatch count, for every pair of counts, though both
\* texts are formatted into the same buffer.
C19_VerdictLinesKeepTheirCounts ==
  (pc = "ret" /\ ret.fn = "map_print") =>
    /\ LineOf(report, "Cooperative 2-8 Player") = Capacity(SpritesWith(map, 1405, 1))
    /\ LineOf(report, "DukeMatch 2-8 Player") = Capacity(SpritesWith(map, 1405, 0))

C19_Witness ==
  /\ pc = "ret" /\ ret.fn = "map_print"
  /\ SpritesWith(map, 1405, 1) = 1 /\ SpritesWith(map, 1405, 0) = 2
  /\ LineOf(report, "Cooperative 2-8 Player") = <<"Yes (", 2, " players)">>
  /\ LineOf(report, "DukeMatch 2-8 Player") = <<"Yes (", 3, " players)">>

\* C20: when the output path can be opened for reading as grp starts, grp
\* exits with failure without ever opening it for writing and the files on
\* disk are as they were; so an output stream exists, or a file differs from
\* what it was, only when no such file was there.
C20_ExistingOutputUntouched ==
  (argc >= 3 /\ FopenRead(input.start, GrpOut)) =>
    /\ input.fs = input.start
    /\ ret.out_fp = "NULL"
    /\ pc \in {"main", "check", "exited"}
    /\ pc = "exited" => status = EXIT_FAILURE

C20_Witness ==
  /\ argc >= 3 /\ FopenRead(input.start, GrpOut)
  /\ pc = "exited" /\ status = EXIT_FAILURE
  /\ input.fs[GrpOut].bytes = <<7, 8>>
  /\ \A k \in 0..(GrpN - 1) : FopenRead(input.fs, GrpIn(k))

\* the number of content bytes of the inputs before in[k]
RECURSIVE ContentBefore(_)
ContentBefore(k) ==
  IF k = 0 THEN 0 ELSE ContentBefore(k - 1) + Len(input.start[GrpIn(k - 1)].bytes)

UpperCase(c) == IF c \in 97..122 THEN c - 32 ELSE c

\* the archive a has the layout for the inputs in[0..n-1]
ArchiveLayout(a, n) ==
  /\ Len(a) = 16 + 16 * n + ContentBefore(n)
  /\ SubSeq(a, 1, 12) = KenSilverman
  /\ FromLE32(SubSeq(a, 13, 16)) = n
  /\ \A k \in 0..(n - 1) :
       LET e == 16 + 16 * k
           c == 16 + 16 * n + ContentBefore(k)
           content == input.start[GrpIn(k)].bytes
       IN /\ \A j \in 1..12 :
               a[e + j] = IF j <= Len(GrpIn(k)) THEN UpperCase(GrpIn(k)[j]) ELSE 0
          /\ FromLE32(SubSeq(a, e + 13, e + 16)) = Len(content)
          /\ SubSeq(a, c + 1, c + Len(content)) = content

\* the layout is what grp_write produces from inputs that are regular files
ArchiveLayoutOfRegularFiles ==
  (pc = "returned" /\ \A k \in 0..(GrpN - 1) : ~input.start[GrpIn(k)].dir) =>
    ArchiveLayout(input.fs[GrpOut].bytes, GrpN)

\* C21: a successfully written archive of n inputs is the 12-byte
\* signature, the 4-byte count n, n directory entries (12-byte upper-cased
\* name, 4-byte size) in argument order, then the n contents in argument
\* order; the size of entry k is the number of content bytes written for
\* input k.
C21_ArchiveLayout ==
  (pc = "returned" /\ status = EXIT_SUCCESS) =>
    ArchiveLayout(input.fs[GrpOut].bytes, GrpN)

\* C22: in vocinfo every stream opened for an input is closed before
\* voc_info returns to main's loop and before main returns, the signature
\* mismatch included; at most one input is open at any time.
C22_HandlesClosed ==
  /\ Cardinality(ret.open) <= 1
  /\ pc \in {"next", "returned"} => ret.open = {}

====
